---- MODULE Spec2Model ----
(***************************************************************************)
(* A model of the PSM simulation suite (src/psm_app): the triangular Life  *)
(* automaton with its branching history (life.py), the two-body collision  *)
(* resolver (collisions.py) and the Euler pendulum integrators             *)
(* (pendulum.py, double_pendulum.py).                                      *)
(*                                                                         *)
(* The floats of the resolver are exact rationals <<num, den>>, those of    *)
(* the integrators are fixed-point integers; IEEE-754 rounding is not part *)
(* of the model.                                                           *)
(***************************************************************************)
EXTENDS Integers, Sequences, FiniteSets, TLC

VARIABLES
    tri_grid,      \* st.session_state.tri_grid
    tri_history,   \* st.session_state.tri_history (1-based here, 0-based in Python)
    tri_step,      \* st.session_state.tri_step
    trail,         \* history variable: the last button presses with the state they found
    nb_call,       \* get_triangle_neighbors: the arguments of the call
    nb_ret,        \* get_triangle_neighbors: the returned list
    ru_call,       \* apply_triangular_rules: the arguments of the call
    ru_ret,        \* apply_triangular_rules: the input array and the returned array
    co_call,       \* compute_collision: the arguments of the call
    co_ret,        \* compute_collision: the returned (v1_new, v2_new, has_collided)
    pe_call,       \* simulate_pendulum / simulate_simple: the arguments of the call
    pe,            \* their locals: n, i, the arrays, the log of array writes, the result
    sim_par,       \* collisions.run: the values of the sidebar widgets
    sim,           \* collisions.run: st.session_state, and the log of the frames run
    pc             \* where the running function is: "call" before it runs, "loop"
                   \* inside its for loop, "done" after it returned, "error" after it raised

lifeVars == <<tri_grid, tri_history, tri_step, trail>>
nbVars == <<nb_call, nb_ret>>
ruVars == <<ru_call, ru_ret>>
coVars == <<co_call, co_ret>>
vars == <<tri_grid, tri_history, tri_step, trail, nb_call, nb_ret, ru_call, ru_ret,
          co_call, co_ret, pe_call, pe, sim_par, sim, pc>>
peVars == <<pe_call, pe>>
simVars == <<sim_par, sim>>

(***************************************************************************)
(* Bounds of the model.                                                    *)
(***************************************************************************)
\* the session grid is Rows x Cols (12 x 16 in the program)
Rows == 2
Cols == 3
\* the random grids of a session are the ones whose row-major bit pattern is
\* in 0..MaxSeed
MaxSeed == 31
\* the grids apply_triangular_rules is called on: bit patterns in 0..MaxRuleSeed
MaxRuleSeed == 63
\* Next is pressed only while the history is shorter than this
MaxHist == 3
\* the velocity components of a particle are integers in -MaxSpeed..MaxSpeed
MaxSpeed == 2
\* the pendulum's numbers are integer multiples of 1/Scale
Scale == 1000
\* t_max is at most MaxTime quarters of a time unit
MaxTime == 6
\* the collision animation runs at most MaxFrames frames after a reset
MaxFrames == 20

(***************************************************************************)
(* life.py: the neighbourhood of a cell.                                   *)
(***************************************************************************)
edge_offsets(r, c) ==
    IF (r + c) % 2 = 0
    THEN << <<r, c - 1>>, <<r, c + 1>>, <<r + 1, c>> >>
    ELSE << <<r, c - 1>>, <<r, c + 1>>, <<r - 1, c>> >>

vertex_offsets(r, c) ==
    << <<r - 1, c - 1>>, <<r - 1, c>>, <<r - 1, c + 1>>,
       <<r, c - 2>>, <<r, c + 2>>,
       <<r + 1, c - 1>>, <<r + 1, c>>, <<r + 1, c + 1>>,
       <<r + 2, c>> >>

InBounds(p, rows, cols) ==
    /\ 0 <= p[1] /\ p[1] < rows
    /\ 0 <= p[2] /\ p[2] < cols

\* the loop of lines 37-39: the set `neighbors` after the candidates cand[i..]
RECURSIVE AddNeighbors(_, _, _, _, _)
AddNeighbors(cand, i, rows, cols, neighbors) ==
    IF i > Len(cand) THEN neighbors
    ELSE AddNeighbors(cand, i + 1, rows, cols,
                      IF InBounds(cand[i], rows, cols)
                      THEN neighbors \cup {cand[i]}
                      ELSE neighbors)

\* list(s): the elements of a set, each once, in an order the set decides
RECURSIVE ListOfSet(_)
ListOfSet(s) ==
    IF s = {} THEN <<>>
    ELSE LET x == CHOOSE y \in s : TRUE
         IN <<x>> \o ListOfSet(s \ {x})

\* a plausible slip: `neighbors` kept as a list, every in-bounds candidate appended
RECURSIVE AppendNeighbors(_, _, _, _, _)
AppendNeighbors(cand, i, rows, cols, neighbors) ==
    IF i > Len(cand) THEN neighbors
    ELSE AppendNeighbors(cand, i + 1, rows, cols,
                         IF InBounds(cand[i], rows, cols)
                         THEN Append(neighbors, cand[i])
                         ELSE neighbors)

get_triangle_neighbors_list(r, c, rows, cols) ==
    AppendNeighbors(edge_offsets(r, c) \o vertex_offsets(r, c), 1, rows, cols, <<>>)

get_triangle_neighbors(r, c, rows, cols) ==
    ListOfSet(AddNeighbors(edge_offsets(r, c) \o vertex_offsets(r, c), 1, rows, cols, {}))

(***************************************************************************)
(* life.py: one generation.  A grid is a function row -> column -> 0/1     *)
(* with 0-based indices, as the numpy array is.                            *)
(***************************************************************************)
NumRows(grid) == Cardinality(DOMAIN grid)
NumCols(grid) == Cardinality(DOMAIN grid[0])

zeros_like(grid) ==
    [r \in DOMAIN grid |-> [c \in DOMAIN grid[r] |-> 0]]

\* sum(grid[nr, nc] for nr, nc in coords)
RECURSIVE SumAlive(_, _, _)
SumAlive(grid, coords, i) ==
    IF i > Len(coords) THEN 0
    ELSE grid[coords[i][1]][coords[i][2]] + SumAlive(grid, coords, i + 1)

\* the body of the two loops for one cell: arrays is [grid, new_grid]
RuleCell(arrays, r, c, birth_cond, survive_cond) ==
    LET grid == arrays.grid
        coords == get_triangle_neighbors(r, c, NumRows(grid), NumCols(grid))
        neighbor_count == SumAlive(grid, coords, 1)
        alive == IF grid[r][c] = 1
                 THEN neighbor_count \in survive_cond
                 ELSE neighbor_count \in birth_cond
    IN IF alive
       THEN [arrays EXCEPT !.new_grid[r][c] = 1]
       ELSE arrays

\* the loops over r and c in row-major order, from cell number k on
RECURSIVE RuleLoop(_, _, _, _)
RuleLoop(arrays, k, birth_cond, survive_cond) ==
    LET rows == NumRows(arrays.grid)
        cols == NumCols(arrays.grid)
    IN IF k >= rows * cols THEN arrays
       ELSE RuleLoop(RuleCell(arrays, k \div cols, k % cols, birth_cond, survive_cond),
                     k + 1, birth_cond, survive_cond)

\* a plausible slip: the generation is written into the input array itself
apply_in_place(grid, birth_cond, survive_cond) ==
    LET step(a, k) ==
            LET r == k \div NumCols(grid)
                c == k % NumCols(grid)
                b == RuleCell([grid |-> a, new_grid |-> zeros_like(a)],
                              r, c, birth_cond, survive_cond)
            IN [a EXCEPT ![r][c] = b.new_grid[r][c]]
        loop[k \in 0..(NumRows(grid) * NumCols(grid))] ==
            IF k = 0 THEN grid ELSE step(loop[k - 1], k - 1)
        out == loop[NumRows(grid) * NumCols(grid)]
    IN [grid |-> out, new_grid |-> out]

\* a plausible slip: the two rule sets exchanged
apply_swapped(grid, birth_cond, survive_cond) ==
    RuleLoop([grid |-> grid, new_grid |-> zeros_like(grid)], 0, survive_cond, birth_cond)

\* the input array and the returned array when the function returns
apply_triangular_rules(grid, birth_cond, survive_cond) ==
    RuleLoop([grid |-> grid, new_grid |-> zeros_like(grid)], 0, birth_cond, survive_cond)

(***************************************************************************)
(* life.py, run(): the session state and the three buttons.                *)
(***************************************************************************)
\* (np.random.rand(12, 16) < 0.3).astype(int): the grid whose cells, row-major,
\* are the bits of seed
GridOfSeed(seed, rows, cols) ==
    [r \in 0..(rows - 1) |-> [c \in 0..(cols - 1) |-> (seed \div (2 ^ (r * cols + c))) % 2]]

RandomGrid(seed) == GridOfSeed(seed, Rows, Cols)

\* the values the two multiselects of the sidebar hold when a button is pressed
RulePairs ==
    { [birth |-> {2, 3}, survive |-> {1, 2}],
      [birth |-> {1, 2}, survive |-> {3, 4, 5}],
      [birth |-> {0}, survive |-> {0, 12}] }

\* the trail with one more press; it keeps the last three
Pressed(op, rule) ==
    LET e == [op |-> op, rule |-> rule, step |-> tri_step, history |-> tri_history]
    IN IF Len(trail) < 3 THEN Append(trail, e) ELSE <<trail[2], trail[3], e>>

NoRule == [birth |-> {}, survive |-> {}]

\* the variables of the parts a specification does not run
NoSession ==
    /\ tri_grid = "none" /\ tri_history = <<>> /\ tri_step = 0 /\ trail = <<>>
NoNeighborCall == nb_call = "none" /\ nb_ret = <<>>
NoArrays == [grid |-> <<>>, new_grid |-> <<>>]
NoRuleCall == ru_call = "none" /\ ru_ret = NoArrays

NoCollisionCall == co_call = "none" /\ co_ret = "none"
NoPendulumCall == pe_call = "none" /\ pe = "none"
NoSimulation == sim_par = "none" /\ sim = "none"

LifeIdle ==
    /\ NoNeighborCall /\ NoRuleCall /\ NoCollisionCall /\ NoPendulumCall /\ NoSimulation
    /\ pc = "session"

LifeInit ==
    /\ \E seed \in 0..MaxSeed :
          /\ tri_grid = RandomGrid(seed)
          /\ tri_history = <<RandomGrid(seed)>>
    /\ tri_step = 0
    /\ trail = <<>>
    /\ LifeIdle

\* "Reset Simulation"
Reset ==
    /\ \E seed \in 0..MaxSeed :
          /\ tri_grid' = RandomGrid(seed)
          /\ tri_history' = <<RandomGrid(seed)>>
    /\ tri_step' = 0
    /\ trail' = <<>>
    /\ UNCHANGED <<nbVars, ruVars, coVars, peVars, simVars, pc>>

\* a plausible slip: Back moves the cursor and keeps the future
BackKeepsFuture ==
    /\ IF tri_step > 0
       THEN /\ tri_step' = tri_step - 1
            /\ tri_history' = tri_history
       ELSE UNCHANGED <<tri_step, tri_history>>
    /\ trail' = Pressed("Back", NoRule)
    /\ UNCHANGED <<tri_grid, nbVars, ruVars, coVars, peVars, simVars, pc>>

\* a plausible slip: Back is not guarded at cursor 0
BackUnguarded ==
    /\ tri_step' = tri_step - 1
    /\ tri_history' = SubSeq(tri_history, 1, (tri_step - 1) + 1)
    /\ trail' = Pressed("Back", NoRule)
    /\ UNCHANGED <<tri_grid, nbVars, ruVars, coVars, peVars, simVars, pc>>

\* "Back (Delete Future)"
Back ==
    /\ IF tri_step > 0
       THEN /\ tri_step' = tri_step - 1
            /\ tri_history' = SubSeq(tri_history, 1, (tri_step - 1) + 1)
       ELSE UNCHANGED <<tri_step, tri_history>>
    /\ trail' = Pressed("Back", NoRule)
    /\ UNCHANGED <<tri_grid, nbVars, ruVars, coVars, peVars, simVars, pc>>

\* "Next (New Future)"; current_state is the array stored at the cursor, and
\* tri_grid is the array stored at index 0
Forward ==
    /\ Len(tri_history) < MaxHist
    /\ \E rule \in RulePairs :
          LET done == apply_triangular_rules(tri_history[tri_step + 1],
                                             rule.birth, rule.survive)
              kept == [tri_history EXCEPT ![tri_step + 1] = done.grid]
          IN /\ tri_history' = Append(kept, done.new_grid)
             /\ tri_grid' = kept[1]
             /\ trail' = Pressed("Next", rule)
    /\ tri_step' = tri_step + 1
    /\ UNCHANGED <<nbVars, ruVars, coVars, peVars, simVars, pc>>

LifeNext == Reset \/ Back \/ Forward

SpecLife == LifeInit /\ [][LifeNext]_vars

(***************************************************************************)
(* get_triangle_neighbors called on its own (SpecNeighbors): every cell of  *)
(* every grid of 1..Rows+2 rows and 1..Cols+2 columns, and of the program's *)
(* 12 x 16 grid.                                                            *)
(***************************************************************************)
GridRows == 12
GridCols == 16

NeighborCalls ==
    { [r |-> r, c |-> c, rows |-> rows, cols |-> cols] :
        r \in 0..(GridRows - 1), c \in 0..(GridCols - 1),
        rows \in (1..(Rows + 2)) \cup {GridRows}, cols \in (1..(Cols + 2)) \cup {GridCols} }

NeighborsInit ==
    /\ nb_call \in { a \in NeighborCalls : a.r < a.rows /\ a.c < a.cols }
    /\ nb_ret = <<>>
    /\ pc = "call"
    /\ NoSession /\ NoRuleCall /\ NoCollisionCall /\ NoPendulumCall /\ NoSimulation

CallNeighbors ==
    /\ pc = "call"
    /\ pc' = "done"
    /\ nb_ret' = get_triangle_neighbors(nb_call.r, nb_call.c, nb_call.rows, nb_call.cols)
    /\ UNCHANGED <<nb_call, lifeVars, ruVars, coVars, peVars, simVars>>

SpecNeighbors == NeighborsInit /\ [][CallNeighbors]_vars

(***************************************************************************)
(* apply_triangular_rules called on its own (SpecRules): grids of up to     *)
(* Rows x Cols cells and rule sets over RuleValues.                         *)
(***************************************************************************)
RuleValues == {0, 1, 3, 12}

RulesInit ==
    /\ \E rows \in 1..Rows, cols \in 1..Cols, seed \in 0..MaxRuleSeed,
          birth \in SUBSET RuleValues, survive \in SUBSET RuleValues :
          /\ seed < 2 ^ (rows * cols)
          /\ ru_call = [grid |-> GridOfSeed(seed, rows, cols),
                        birth_cond |-> birth, survive_cond |-> survive]
    /\ ru_ret = NoArrays
    /\ pc = "call"
    /\ NoSession /\ NoNeighborCall /\ NoCollisionCall /\ NoPendulumCall /\ NoSimulation

CallRules ==
    /\ pc = "call"
    /\ pc' = "done"
    /\ ru_ret' = apply_triangular_rules(ru_call.grid, ru_call.birth_cond, ru_call.survive_cond)
    /\ UNCHANGED <<ru_call, lifeVars, nbVars, coVars, peVars, simVars>>

SpecRules == RulesInit /\ [][CallRules]_vars

(***************************************************************************)
(* apply_triangular_rules on crowded grids (SpecNeighbourBound): grids of   *)
(* Rows + 3 by Cols + 2 cells, large enough to hold every candidate of an   *)
(* inner cell, alive everywhere but for some of DeadCells, with rule sets   *)
(* over the two largest values the multiselect of run() offers.  The same   *)
(* specification makes the calls of SpecNeighbors.                          *)
(***************************************************************************)
DeadCells == { <<0, 0>>, <<1, 1>>, <<1, 2>>, <<2, 2>> }
CrowdedRuleValues == {11, 12}

CrowdedGrid(dead) ==
    [r \in 0..(Rows + 2) |-> [c \in 0..(Cols + 1) |-> IF <<r, c>> \in dead THEN 0 ELSE 1]]

CrowdedInit ==
    /\ \E dead \in SUBSET DeadCells,
          birth \in SUBSET CrowdedRuleValues, survive \in SUBSET CrowdedRuleValues :
          ru_call = [grid |-> CrowdedGrid(dead),
                     birth_cond |-> birth, survive_cond |-> survive]
    /\ ru_ret = NoArrays
    /\ pc = "crowded"
    /\ NoSession /\ NoNeighborCall /\ NoCollisionCall /\ NoPendulumCall /\ NoSimulation

CallRulesCrowded ==
    /\ pc = "crowded"
    /\ pc' = "counted"
    /\ ru_ret' = apply_triangular_rules(ru_call.grid, ru_call.birth_cond, ru_call.survive_cond)
    /\ UNCHANGED <<ru_call, lifeVars, nbVars, coVars, peVars, simVars>>

SpecNeighbourBound ==
    (NeighborsInit \/ CrowdedInit) /\ [][CallNeighbors \/ CallRulesCrowded]_vars

(***************************************************************************)
(* Exact arithmetic: a number is <<numerator, denominator>> in lowest terms *)
(* with a positive denominator; a 2D vector is a pair of numbers.           *)
(***************************************************************************)
Abs(i) == IF i < 0 THEN -i ELSE i

RECURSIVE GCD(_, _)
GCD(a, b) == IF b = 0 THEN a ELSE GCD(b, a % b)

Q(n, d) ==
    LET g == GCD(Abs(n), Abs(d))
        sgn == IF d < 0 THEN -1 ELSE 1
    IN << (sgn * n) \div g, (sgn * d) \div g >>

Zero == <<0, 1>>
One == <<1, 1>>
Half == <<1, 2>>
\* sums and comparisons go through the least common denominator, products
\* cancel crosswise first, so that the intermediate integers stay small
RAdd(a, b) ==
    LET g == GCD(a[2], b[2])
    IN Q(a[1] * (b[2] \div g) + b[1] * (a[2] \div g), (a[2] \div g) * b[2])
RNeg(a) == << -a[1], a[2] >>
RSub(a, b) == RAdd(a, RNeg(b))
RMul(a, b) ==
    LET g1 == GCD(Abs(a[1]), b[2])
        g2 == GCD(Abs(b[1]), a[2])
    IN Q((a[1] \div g1) * (b[1] \div g2), (a[2] \div g2) * (b[2] \div g1))
RDiv(a, b) == RMul(a, Q(b[2], b[1]))
RLe(a, b) ==
    LET g == GCD(a[2], b[2])
    IN a[1] * (b[2] \div g) <= b[1] * (a[2] \div g)
RLt(a, b) ==
    LET g == GCD(a[2], b[2])
    IN a[1] * (b[2] \div g) < b[1] * (a[2] \div g)

\* the non-negative square root of a square number
ISqrt(k) == CHOOSE s \in 0..k : s * s = k
RSqrt(a) == << ISqrt(a[1]), ISqrt(a[2]) >>

VAdd(u, v) == << RAdd(u[1], v[1]), RAdd(u[2], v[2]) >>
VSub(u, v) == << RSub(u[1], v[1]), RSub(u[2], v[2]) >>
VScale(k, v) == << RMul(k, v[1]), RMul(k, v[2]) >>
VDiv(v, k) == << RDiv(v[1], k), RDiv(v[2], k) >>
Dot(u, v) == RAdd(RMul(u[1], v[1]), RMul(u[2], v[2]))
\* np.linalg.norm
Norm(v) == RSqrt(Dot(v, v))

(***************************************************************************)
(* collisions.py: the resolver.                                            *)
(***************************************************************************)
\* a plausible slip: the second disc's velocity change divided by the first mass
compute_collision_mass_mixup(x1, x2, v1, v2, m1, m2, r1, r2, restitution) ==
    LET dist_vec == VSub(x1, x2)
        dist == Norm(dist_vec)
    IN IF RLe(dist, RAdd(r1, r2))
       THEN LET n == VDiv(dist_vec, dist)
                vel_along_normal == Dot(VSub(v1, v2), n)
            IN IF RLt(Zero, vel_along_normal)
               THEN [v1 |-> v1, v2 |-> v2, collided |-> FALSE]
               ELSE LET j == RDiv(RMul(RNeg(RAdd(One, restitution)), vel_along_normal),
                                  RAdd(RDiv(One, m1), RDiv(One, m2)))
                        impulse == VScale(j, n)
                    IN [v1 |-> VAdd(v1, VDiv(impulse, m1)),
                        v2 |-> VSub(v2, VDiv(impulse, m1)),
                        collided |-> TRUE]
       ELSE [v1 |-> v1, v2 |-> v2, collided |-> FALSE]

\* a plausible slip: the separating guard left out
compute_collision_unguarded(x1, x2, v1, v2, m1, m2, r1, r2, restitution) ==
    LET dist_vec == VSub(x1, x2)
        dist == Norm(dist_vec)
    IN IF RLe(dist, RAdd(r1, r2))
       THEN LET n == VDiv(dist_vec, dist)
                vel_along_normal == Dot(VSub(v1, v2), n)
                j == RDiv(RMul(RNeg(RAdd(One, restitution)), vel_along_normal),
                          RAdd(RDiv(One, m1), RDiv(One, m2)))
                impulse == VScale(j, n)
            IN [v1 |-> VAdd(v1, VDiv(impulse, m1)),
                v2 |-> VSub(v2, VDiv(impulse, m2)),
                collided |-> TRUE]
       ELSE [v1 |-> v1, v2 |-> v2, collided |-> FALSE]

\* a plausible slip: the impulse scaled by restitution instead of 1 + restitution
compute_collision_e_only(x1, x2, v1, v2, m1, m2, r1, r2, restitution) ==
    LET dist_vec == VSub(x1, x2)
        dist == Norm(dist_vec)
    IN IF RLe(dist, RAdd(r1, r2))
       THEN LET n == VDiv(dist_vec, dist)
                vel_along_normal == Dot(VSub(v1, v2), n)
            IN IF RLt(Zero, vel_along_normal)
               THEN [v1 |-> v1, v2 |-> v2, collided |-> FALSE]
               ELSE LET j == RDiv(RMul(RNeg(restitution), vel_along_normal),
                                  RAdd(RDiv(One, m1), RDiv(One, m2)))
                        impulse == VScale(j, n)
                    IN [v1 |-> VAdd(v1, VDiv(impulse, m1)),
                        v2 |-> VSub(v2, VDiv(impulse, m2)),
                        collided |-> TRUE]
       ELSE [v1 |-> v1, v2 |-> v2, collided |-> FALSE]

compute_collision(x1, x2, v1, v2, m1, m2, r1, r2, restitution) ==
    LET dist_vec == VSub(x1, x2)
        dist == Norm(dist_vec)
    IN IF RLe(dist, RAdd(r1, r2))
       THEN LET n == VDiv(dist_vec, dist)
                v_rel == VSub(v1, v2)
                vel_along_normal == Dot(v_rel, n)
            IN IF RLt(Zero, vel_along_normal)
               THEN [v1 |-> v1, v2 |-> v2, collided |-> FALSE]
               ELSE LET j == RDiv(RMul(RNeg(RAdd(One, restitution)), vel_along_normal),
                                  RAdd(RDiv(One, m1), RDiv(One, m2)))
                        impulse == VScale(j, n)
                        v1_new == VAdd(v1, VDiv(impulse, m1))
                        v2_new == VSub(v2, VDiv(impulse, m2))
                    IN [v1 |-> v1_new, v2 |-> v2_new, collided |-> TRUE]
       ELSE [v1 |-> v1, v2 |-> v2, collided |-> FALSE]

\* E_kin of run(): norm(v)**2 is the dot product of v with itself
KineticEnergy(m1, v1, m2, v2) ==
    RAdd(RMul(RMul(Half, m1), Dot(v1, v1)), RMul(RMul(Half, m2), Dot(v2, v2)))

(***************************************************************************)
(* compute_collision called on its own (SpecCollision).  The centres are    *)
(* placed so that their distance is a rational number and not 0; the radii  *)
(* are the 0.4 of run().                                                    *)
(***************************************************************************)
Radius == Q(2, 5)

\* (x1, x2): touching head-on, touching obliquely, overlapping (three ways), apart (twice)
Placements ==
    { << <<Q(-4, 5), Zero>>, <<Zero, Zero>> >>,
      << <<Q(-12, 25), Q(-16, 25)>>, <<Zero, Zero>> >>,
      << <<Q(37, 10), Q(3, 5)>>, <<Q(4, 1), Q(1, 5)>> >>,
      << <<Q(3, 5), Zero>>, <<Zero, Zero>> >>,
      << <<Zero, Q(1, 2)>>, <<Zero, Zero>> >>,
      << <<Q(-1, 1), Zero>>, <<Zero, Zero>> >>,
      << <<Q(17, 5), Q(-3, 5)>>, <<Q(4, 1), Q(1, 5)>> >> }

MassPairs ==
    { <<One, One>>, <<Q(2, 1), Q(2, 1)>>, <<One, Q(2, 1)>>, <<Q(2, 1), Half>>, <<Half, Q(3, 1)>> }

Restitutions == { Q(-2, 1), Q(-1, 1), Q(-1, 2), Zero, Half, One, Q(2, 1) }

Velocities == { <<Q(a, 1), Q(b, 1)>> : a, b \in (-MaxSpeed)..MaxSpeed }

CollisionInit ==
    /\ \E p \in Placements, m \in MassPairs, e \in Restitutions,
          v1 \in Velocities, v2 \in { v \in Velocities : Abs(v[2][1]) <= 1 } :
          co_call = [x1 |-> p[1], x2 |-> p[2], v1 |-> v1, v2 |-> v2,
                     m1 |-> m[1], m2 |-> m[2], r1 |-> Radius, r2 |-> Radius,
                     restitution |-> e]
    /\ co_ret = "none"
    /\ pc = "call"
    /\ NoSession /\ NoNeighborCall /\ NoRuleCall /\ NoPendulumCall /\ NoSimulation

CallCollision ==
    /\ pc = "call"
    /\ pc' = "done"
    /\ co_ret' = compute_collision(co_call.x1, co_call.x2, co_call.v1, co_call.v2,
                                   co_call.m1, co_call.m2, co_call.r1, co_call.r2,
                                   co_call.restitution)
    /\ UNCHANGED <<co_call, lifeVars, nbVars, ruVars, peVars, simVars>>

SpecCollision == CollisionInit /\ [][CallCollision]_vars

(***************************************************************************)
(* pendulum.py and double_pendulum.py: the Euler integrators of the simple  *)
(* pendulum.  Their numbers are fixed-point: the integer k stands for       *)
(* k/Scale, a product or quotient is rounded down to the next multiple of   *)
(* 1/Scale, and np.sin, np.cos are their Taylor polynomials of degree 3, 2. *)
(***************************************************************************)
FMul(a, b) == (a * b) \div Scale
FDiv(a, b) == (a * Scale) \div b
Sin(x) == x - (FMul(FMul(x, x), x) \div 6)
Cos(x) == Scale - (FMul(x, x) \div 2)

\* int(a / b): the quotient, truncated towards zero
IntTrunc(a, b) ==
    IF (a < 0) = (b < 0) THEN Abs(a) \div Abs(b) ELSE -(Abs(a) \div Abs(b))

\* a plausible slip: one step too many
NumStepsPlusOne(t_max, dt) == IntTrunc(t_max, dt) + 1

\* n = int(t_max / dt)
NumSteps(t_max, dt) == IntTrunc(t_max, dt)

\* np.zeros(n)
zeros(n) == [k \in 0..(n - 1) |-> 0]

\* a plausible slip: the angle read at the index being written
EulerOmegaSameIndex(theta, omega, i, g, L, gamma, dt) ==
    omega[i - 1] - FMul(FMul(FDiv(g, L), Sin(theta[i])), dt) - FMul(FMul(gamma, omega[i - 1]), dt)

\* omega[i-1] - (g / L) * np.sin(theta[i-1]) * dt - gamma * omega[i-1] * dt
EulerOmega(theta, omega, i, g, L, gamma, dt) ==
    omega[i - 1] - FMul(FMul(FDiv(g, L), Sin(theta[i - 1])), dt) - FMul(FMul(gamma, omega[i - 1]), dt)

\* theta[i-1] + omega[i] * dt, with omega[i] already written
EulerTheta(theta, omega, i, dt) == theta[i - 1] + FMul(omega[i], dt)

\* the arguments: angles 0.5 and 1, t_max from a quarter to MaxTime quarters
PendulumCalls(fn) ==
    { [fn |-> fn, theta0 |-> theta0, omega0 |-> omega0, g |-> 10 * Scale, L |-> L,
       gamma |-> gamma, dt |-> dt, t_max |-> k * (Scale \div 4)] :
        theta0 \in {Scale \div 2, Scale}, omega0 \in {0, -Scale},
        L \in {Scale, 2 * Scale}, gamma \in {0, Scale \div 10},
        dt \in {Scale \div 4, Scale \div 2}, k \in 1..MaxTime }

PendulumInit ==
    /\ pe_call \in PendulumCalls("simulate_pendulum") \cup PendulumCalls("simulate_simple")
    /\ pe = [n |-> 0, i |-> 0, theta |-> <<>>, omega |-> <<>>, time |-> <<>>,
             log |-> <<>>, ret |-> <<>>]
    /\ pc = "call"
    /\ NoSession /\ NoNeighborCall /\ NoRuleCall /\ NoCollisionCall /\ NoSimulation

\* simulate_pendulum up to its loop: lines 15-22; theta[0] = theta0 raises
\* IndexError on an empty array
PendulumEnter ==
    /\ pc = "call"
    /\ pe_call.fn = "simulate_pendulum"
    /\ LET n == NumSteps(pe_call.t_max, pe_call.dt)
       IN IF n = 0
          THEN /\ pc' = "error"
               /\ pe' = [pe EXCEPT !.n = n, !.theta = zeros(n), !.omega = zeros(n),
                                   !.time = zeros(n)]
          ELSE /\ pc' = "loop"
               /\ pe' = [pe EXCEPT !.n = n, !.i = 1,
                                   !.theta = [zeros(n) EXCEPT ![0] = pe_call.theta0],
                                   !.omega = [zeros(n) EXCEPT ![0] = pe_call.omega0],
                                   !.time = zeros(n)]
    /\ UNCHANGED <<pe_call, lifeVars, nbVars, ruVars, coVars, simVars>>

\* one pass of the loop of lines 24-27
PendulumStep ==
    /\ pc = "loop"
    /\ pe_call.fn = "simulate_pendulum"
    /\ pe.i < pe.n
    /\ LET i == pe.i
           omega == [pe.omega EXCEPT ![i] = EulerOmega(pe.theta, pe.omega, i, pe_call.g,
                                                      pe_call.L, pe_call.gamma, pe_call.dt)]
           theta == [pe.theta EXCEPT ![i] = EulerTheta(pe.theta, omega, i, pe_call.dt)]
           time == [pe.time EXCEPT ![i] = pe.time[i - 1] + pe_call.dt]
       IN pe' = [pe EXCEPT !.omega = omega, !.theta = theta, !.time = time,
                           !.i = i + 1, !.log = Append(pe.log, i)]
    /\ UNCHANGED <<pe_call, pc, lifeVars, nbVars, ruVars, coVars, simVars>>

\* return time, theta, omega
PendulumReturn ==
    /\ pc = "loop"
    /\ pe_call.fn = "simulate_pendulum"
    /\ pe.i >= pe.n
    /\ pe' = [pe EXCEPT !.ret = <<pe.time, pe.theta, pe.omega>>]
    /\ pc' = "done"
    /\ UNCHANGED <<pe_call, lifeVars, nbVars, ruVars, coVars, simVars>>

\* simulate_simple up to its loop: lines 10-16
SimpleEnter ==
    /\ pc = "call"
    /\ pe_call.fn = "simulate_simple"
    /\ LET n == NumSteps(pe_call.t_max, pe_call.dt)
       IN IF n = 0
          THEN /\ pc' = "error"
               /\ pe' = [pe EXCEPT !.n = n, !.theta = zeros(n), !.omega = zeros(n)]
          ELSE /\ pc' = "loop"
               /\ pe' = [pe EXCEPT !.n = n, !.i = 1,
                                   !.theta = [zeros(n) EXCEPT ![0] = pe_call.theta0],
                                   !.omega = [zeros(n) EXCEPT ![0] = pe_call.omega0]]
    /\ UNCHANGED <<pe_call, lifeVars, nbVars, ruVars, coVars, simVars>>

\* one pass of the loop of lines 18-20
SimpleStep ==
    /\ pc = "loop"
    /\ pe_call.fn = "simulate_simple"
    /\ pe.i < pe.n
    /\ LET i == pe.i
           omega == [pe.omega EXCEPT ![i] = EulerOmega(pe.theta, pe.omega, i, pe_call.g,
                                                      pe_call.L, pe_call.gamma, pe_call.dt)]
           theta == [pe.theta EXCEPT ![i] = EulerTheta(pe.theta, omega, i, pe_call.dt)]
       IN pe' = [pe EXCEPT !.omega = omega, !.theta = theta,
                           !.i = i + 1, !.log = Append(pe.log, i)]
    /\ UNCHANGED <<pe_call, pc, lifeVars, nbVars, ruVars, coVars, simVars>>

\* x = L * np.sin(theta); y = -L * np.cos(theta); return x, y
SimpleReturn ==
    /\ pc = "loop"
    /\ pe_call.fn = "simulate_simple"
    /\ pe.i >= pe.n
    /\ pe' = [pe EXCEPT !.ret = << [k \in DOMAIN pe.theta |-> FMul(pe_call.L, Sin(pe.theta[k]))],
                                   [k \in DOMAIN pe.theta |-> FMul(-pe_call.L, Cos(pe.theta[k]))] >>]
    /\ pc' = "done"
    /\ UNCHANGED <<pe_call, lifeVars, nbVars, ruVars, coVars, simVars>>

PendulumNext ==
    \/ PendulumEnter \/ PendulumStep \/ PendulumReturn
    \/ SimpleEnter \/ SimpleStep \/ SimpleReturn

SpecPendulum == PendulumInit /\ [][PendulumNext]_vars

(***************************************************************************)
(* collisions.py, run(): the animation.  The sidebar values stay as they    *)
(* are during a run; the impact parameter is 0, so that the centres stay on *)
(* the x axis and their distance is a rational number.                      *)
(***************************************************************************)
BASE_DT == Q(3, 100)

SimulationParams ==
    { [time_scale |-> ts, restitution |-> e, m1 |-> m[1], m2 |-> m[2],
       v1_init |-> v[1], v2_init |-> v[2], offset |-> Zero] :
        ts \in {One, Q(2, 1)}, e \in {Zero, Half, One}, m \in MassPairs,
        v \in { <<Q(5, 1), Q(-5, 1)>>, <<Q(5, 1), Q(-2, 1)>>, <<Q(4, 1), Q(-5, 1)>> } }

\* the session state of lines 71-77 and 88-94
StartState(par) ==
    [sim_running |-> FALSE,
     x1 |-> <<Q(-4, 1), Zero>>,
     x2 |-> <<Q(4, 1), par.offset>>,
     v1 |-> <<par.v1_init, Zero>>,
     v2 |-> <<par.v2_init, Zero>>,
     energy_history |-> <<>>,
     log |-> <<>>]

SimulationInit ==
    /\ sim_par \in SimulationParams
    /\ sim = StartState(sim_par)
    /\ pc = "frames"
    /\ NoSession /\ NoNeighborCall /\ NoRuleCall /\ NoCollisionCall /\ NoPendulumCall

\* "Start"
StartSim ==
    /\ pc = "frames"
    /\ sim' = [sim EXCEPT !.sim_running = TRUE]
    /\ UNCHANGED <<sim_par, pc, lifeVars, nbVars, ruVars, coVars, peVars>>

\* "Stop"
StopSim ==
    /\ pc = "frames"
    /\ sim' = [sim EXCEPT !.sim_running = FALSE]
    /\ UNCHANGED <<sim_par, pc, lifeVars, nbVars, ruVars, coVars, peVars>>

\* "Pw Reset"
ResetSim ==
    /\ pc = "frames"
    /\ sim' = StartState(sim_par)
    /\ UNCHANGED <<sim_par, pc, lifeVars, nbVars, ruVars, coVars, peVars>>

\* one pass of the loop of lines 113-137: the positions advance, the resolver
\* runs once, the energy is recorded.  log gets the resolver's answer, whether
\* the discs it saw overlapped, and the velocities stored after it.
Frame ==
    /\ pc = "frames"
    /\ sim.sim_running
    /\ Len(sim.energy_history) < MaxFrames
    /\ LET dt == RMul(BASE_DT, sim_par.time_scale)
           x1 == VAdd(sim.x1, VScale(dt, sim.v1))
           x2 == VAdd(sim.x2, VScale(dt, sim.v2))
           res == compute_collision(x1, x2, sim.v1, sim.v2, sim_par.m1, sim_par.m2,
                                    Radius, Radius, sim_par.restitution)
           E_kin == KineticEnergy(sim_par.m1, res.v1, sim_par.m2, res.v2)
           overlap == RLe(Norm(VSub(x1, x2)), RAdd(Radius, Radius))
       IN sim' = [sim EXCEPT !.x1 = x1, !.x2 = x2, !.v1 = res.v1, !.v2 = res.v2,
                             !.energy_history = Append(sim.energy_history, E_kin),
                             !.log = Append(sim.log, [hit |-> res.collided,
                                                      overlap |-> overlap,
                                                      v1 |-> res.v1, v2 |-> res.v2])]
    /\ UNCHANGED <<sim_par, pc, lifeVars, nbVars, ruVars, coVars, peVars>>

SimulationNext == StartSim \/ StopSim \/ ResetSim \/ Frame

SpecSimulation == SimulationInit /\ [][SimulationNext]_vars

\* the resolver on its own and inside the animation loop
SpecMomentum ==
    (CollisionInit \/ SimulationInit) /\ [][CallCollision \/ SimulationNext]_vars

(***************************************************************************)
(* The history stack (SpecLife).                                           *)
(***************************************************************************)
LastPress == trail[Len(trail)]

\* C1: in every state reached by Next, Back and Reset presses the history is
\* non-empty and the cursor tri_step is the index of its last snapshot
\* (len(tri_history) - 1), so no snapshot lies after the cursor.
C1_CursorAtLastSnapshot ==
    /\ Len(tri_history) >= 1
    /\ tri_step = Len(tri_history) - 1

\* C1 witness: Next, Next, Back from cursor 2, Next again
C1_Witness ==
    /\ Len(trail) = 3
    /\ trail[1].op = "Next" /\ trail[1].step = 1
    /\ trail[2].op = "Back" /\ trail[2].step = 2
    /\ trail[3].op = "Next"
    /\ tri_step = 2

IsBranch ==
    /\ Len(trail) = 3
    /\ trail[1].op = "Next"
    /\ trail[2].op = "Back"
    /\ trail[3].op = "Next"

\* C2: after Next under (B1,S1), Back, Next under (B2,S2), pressed at cursor c
\* on the grid G = history[c], the cursor is c+1, the history has c+2 entries,
\* the last one is apply_triangular_rules(G, B2, S2), and the entries up to c
\* are the ones stored before the first Next.
C2_BranchIsolation ==
    IsBranch =>
        LET c == trail[1].step
            G == trail[1].history[c + 1]
            B2 == trail[3].rule.birth
            S2 == trail[3].rule.survive
        IN /\ tri_step = c + 1
           /\ Len(tri_history) = c + 2
           /\ tri_history[c + 2] = apply_triangular_rules(G, B2, S2).new_grid
           /\ \A i \in 1..(c + 1) : tri_history[i] = trail[1].history[i]

\* C2 witness: a branch whose two rule sets differ and give different grids
C2_Witness ==
    /\ IsBranch
    /\ trail[1].rule # trail[3].rule
    /\ trail[1].step = 1
    /\ tri_history[Len(tri_history)] # trail[2].history[Len(trail[2].history)]

\* C3: Back at cursor 0 changes neither the cursor nor the history; Back at a
\* cursor > 0 decrements the cursor by one and keeps exactly the first
\* tri_step+1 entries, unchanged.
C3_BackGuarded ==
    (Len(trail) >= 1 /\ LastPress.op = "Back") =>
        IF LastPress.step = 0
        THEN /\ tri_step = 0
             /\ tri_history = LastPress.history
        ELSE /\ tri_step = LastPress.step - 1
             /\ Len(tri_history) = tri_step + 1
             /\ \A i \in 1..(tri_step + 1) : tri_history[i] = LastPress.history[i]

\* C3 witness: Back from cursor 1, then Back again at cursor 0
C3_Witness ==
    /\ Len(trail) >= 2
    /\ trail[Len(trail) - 1].op = "Back" /\ trail[Len(trail) - 1].step = 1
    /\ LastPress.op = "Back" /\ LastPress.step = 0

(***************************************************************************)
(* The generation rule (SpecRules) and the neighbourhood (SpecNeighbors).   *)
(***************************************************************************)
\* the number of entries of get_triangle_neighbors(r, c) that are alive in grid
LiveNeighbours(grid, r, c) ==
    LET coords == get_triangle_neighbors(r, c, NumRows(grid), NumCols(grid))
    IN Cardinality({ i \in 1..Len(coords) : grid[coords[i][1]][coords[i][2]] = 1 })

\* C4: apply_triangular_rules returns a grid of the input's dimensions in which
\* a cell is alive iff (it was alive and its live-neighbour count is in
\* survive_set) or (it was dead and the count is in birth_set); the input grid
\* is as it was.
C4_ForwardRule ==
    pc = "done" =>
        LET grid == ru_call.grid
            out == ru_ret.new_grid
        IN /\ DOMAIN out = DOMAIN grid
           /\ \A r \in DOMAIN grid :
                /\ DOMAIN out[r] = DOMAIN grid[r]
                /\ \A c \in DOMAIN grid[r] :
                     /\ out[r][c] \in {0, 1}
                     /\ out[r][c] = 1 <=>
                           \/ grid[r][c] = 1 /\ LiveNeighbours(grid, r, c) \in ru_call.survive_cond
                           \/ grid[r][c] = 0 /\ LiveNeighbours(grid, r, c) \in ru_call.birth_cond
           /\ ru_ret.grid = grid

\* C4 witness: a generation with a birth, a survival and a death
C4_Witness ==
    /\ pc = "done"
    /\ \E r1, r2, r3 \in DOMAIN ru_call.grid :
         \E c1, c2, c3 \in DOMAIN ru_call.grid[0] :
            /\ ru_call.grid[r1][c1] = 0 /\ ru_ret.new_grid[r1][c1] = 1
            /\ ru_call.grid[r2][c2] = 1 /\ ru_ret.new_grid[r2][c2] = 1
            /\ ru_call.grid[r3][c3] = 1 /\ ru_ret.new_grid[r3][c3] = 0

\* C5: get_triangle_neighbors returns exactly the in-bounds members of the
\* edge set of the cell's orientation ({left, right, bottom} when r+c is even,
\* {left, right, top} when odd) and of the nine vertex offsets, none twice and
\* none outside 0 <= nr < rows, 0 <= nc < cols.
C5_NeighbourTopology ==
    pc = "done" =>
        LET r == nb_call.r
            c == nb_call.c
            left == <<r, c - 1>>
            right == <<r, c + 1>>
            bottom == <<r + 1, c>>
            top == <<r - 1, c>>
            edges == IF (r + c) % 2 = 0 THEN {left, right, bottom} ELSE {left, right, top}
            vertices == { <<r - 1, c - 1>>, <<r - 1, c>>, <<r - 1, c + 1>>,
                          <<r, c - 2>>, <<r, c + 2>>,
                          <<r + 1, c - 1>>, <<r + 1, c>>, <<r + 1, c + 1>>,
                          <<r + 2, c>> }
            valid == { p \in edges \cup vertices :
                         /\ 0 <= p[1] /\ p[1] < nb_call.rows
                         /\ 0 <= p[2] /\ p[2] < nb_call.cols }
        IN /\ { nb_ret[i] : i \in 1..Len(nb_ret) } = valid
           /\ \A i, j \in 1..Len(nb_ret) : i # j => nb_ret[i] # nb_ret[j]

\* C5 witness: cell (0,0) of the 12 x 16 grid, with its five neighbours
C5_Witness ==
    /\ nb_call = [r |-> 0, c |-> 0, rows |-> GridRows, cols |-> GridCols]
    /\ pc = "done"
    /\ { nb_ret[i] : i \in 1..Len(nb_ret) } = { <<0, 1>>, <<1, 0>>, <<0, 2>>, <<1, 1>>, <<2, 0>> }

(***************************************************************************)
(* The collision resolver (SpecCollision).                                  *)
(***************************************************************************)
CoD == VSub(co_call.x1, co_call.x2)
CoRadii == RAdd(co_call.r1, co_call.r2)
\* |x1 - x2| <= r1 + r2, on the squares
InContact == RLe(Dot(CoD, CoD), RMul(CoRadii, CoRadii))
\* the unit normal n and the relative velocity along it before the call
CoNormal == VDiv(CoD, Norm(CoD))
CoVn == Dot(VSub(co_call.v1, co_call.v2), CoNormal)
Resolved == InContact /\ RLe(CoVn, Zero)
EnergyBefore == KineticEnergy(co_call.m1, co_call.v1, co_call.m2, co_call.v2)
EnergyAfter == KineticEnergy(co_call.m1, co_ret.v1, co_call.m2, co_ret.v2)

\* C6: compute_collision returns v1, v2 unchanged and collided = False when the
\* centre distance is greater than r1+r2, and also when the particles are in
\* contact but the relative velocity along the normal is positive.
C6_NoOpCases ==
    (pc = "done" /\ (~InContact \/ RLt(Zero, CoVn))) =>
        /\ co_ret.v1 = co_call.v1
        /\ co_ret.v2 = co_call.v2
        /\ co_ret.collided = FALSE

\* C6 witness: an overlapping pair that is separating
C6_Witness ==
    /\ pc = "done"
    /\ InContact
    /\ RLt(Zero, CoVn)
    /\ co_call.v1 # co_call.v2

HeadOnCase ==
    /\ CoD = << RNeg(CoRadii), Zero >>
    /\ co_call.v1 = << Q(2, 1), Zero >>
    /\ co_call.v2 = << Q(-1, 1), Zero >>

\* C8: with restitution 1 and equal masses, the head-on touching contact with
\* v1 = (2,0), v2 = (-1,0) returns v1' = (-1,0), v2' = (2,0), collided = True;
\* and every resolved contact exchanges the normal components of the two
\* velocities and leaves the tangential components as they were.
C8_ElasticSwap ==
    (pc = "done" /\ co_call.restitution = One /\ co_call.m1 = co_call.m2) =>
        /\ HeadOnCase =>
              /\ co_ret.v1 = << Q(-1, 1), Zero >>
              /\ co_ret.v2 = << Q(2, 1), Zero >>
              /\ co_ret.collided = TRUE
        /\ Resolved =>
              LET n == CoNormal
                  tangential(v) == VSub(v, VScale(Dot(v, n), n))
              IN /\ co_ret.collided = TRUE
                 /\ Dot(co_ret.v1, n) = Dot(co_call.v2, n)
                 /\ Dot(co_ret.v2, n) = Dot(co_call.v1, n)
                 /\ tangential(co_ret.v1) = tangential(co_call.v1)
                 /\ tangential(co_ret.v2) = tangential(co_call.v2)

\* C8 witness: the head-on case of the claim
C8_Witness ==
    /\ pc = "done"
    /\ co_call.restitution = One
    /\ co_call.m1 = co_call.m2
    /\ HeadOnCase
    /\ co_ret.collided = TRUE

StrictlyResolved == InContact /\ RLt(CoVn, Zero)
InUnitRange(e) == RLe(Zero, e) /\ RLe(e, One)

\* C9 as claimed: for a resolved collision (contact, vn < 0) the kinetic energy
\* after the call is greater than before for every restitution outside [0,1],
\* equal for restitution 1 and not greater for restitution in [0,1).
C9_AsClaimed ==
    (pc = "done" /\ StrictlyResolved) =>
        /\ ~InUnitRange(co_call.restitution) => RLt(EnergyBefore, EnergyAfter)
        /\ co_call.restitution = One => EnergyAfter = EnergyBefore
        /\ (InUnitRange(co_call.restitution) /\ co_call.restitution # One) =>
              RLe(EnergyAfter, EnergyBefore)

\* C9: for a resolved collision (contact, vn < 0) the kinetic energy after the
\* call is greater than before exactly for restitution above 1 or below -1; it
\* is equal for restitution 1 (and -1), and smaller for restitution strictly
\* between -1 and 1, negative values included.
C9_EnergyByRestitution ==
    (pc = "done" /\ StrictlyResolved) =>
        LET e == co_call.restitution
        IN /\ (RLt(One, e) \/ RLt(e, Q(-1, 1))) => RLt(EnergyBefore, EnergyAfter)
           /\ (e = One \/ e = Q(-1, 1)) => EnergyAfter = EnergyBefore
           /\ (RLt(Q(-1, 1), e) /\ RLt(e, One)) => RLt(EnergyAfter, EnergyBefore)

\* C9 witness: a resolved collision with a negative restitution that loses energy
C9_Witness ==
    /\ pc = "done"
    /\ StrictlyResolved
    /\ co_call.restitution = Q(-1, 2)
    /\ RLt(EnergyAfter, EnergyBefore)

(***************************************************************************)
(* The simple-pendulum integrators (SpecPendulum).                          *)
(***************************************************************************)
\* C10: for dt > 0 and t_max >= dt, simulate_pendulum and simulate_simple make
\* arrays of length floor(t_max/dt) with theta[0] = theta0 and omega[0] =
\* omega0, and write the indices 1..n-1 once each in increasing order, entry i
\* from the entries at i-1 (and the omega[i] just written) only.
C10_TrajectoryShape ==
    (pe_call.dt > 0 /\ pe_call.t_max >= pe_call.dt) =>
        /\ pc # "error"
        /\ pc \in {"loop", "done"} =>
              /\ pe.n * pe_call.dt <= pe_call.t_max
              /\ pe_call.t_max < (pe.n + 1) * pe_call.dt
              /\ DOMAIN pe.theta = 0..(pe.n - 1)
              /\ DOMAIN pe.omega = 0..(pe.n - 1)
              /\ pe.theta[0] = pe_call.theta0
              /\ pe.omega[0] = pe_call.omega0
              /\ pe.log = [k \in 1..(pe.i - 1) |-> k]
              /\ \A k \in 1..(pe.i - 1) :
                    /\ pe.omega[k] = pe.omega[k - 1]
                                     - FMul(FMul(FDiv(pe_call.g, pe_call.L), Sin(pe.theta[k - 1])),
                                            pe_call.dt)
                                     - FMul(FMul(pe_call.gamma, pe.omega[k - 1]), pe_call.dt)
                    /\ pe.theta[k] = pe.theta[k - 1] + FMul(pe.omega[k], pe_call.dt)
              /\ \A k \in pe.i..(pe.n - 1) : pe.theta[k] = 0 /\ pe.omega[k] = 0
        /\ pc = "done" => pe.i = pe.n /\ Len(pe.log) = pe.n - 1

\* C10 witness: simulate_simple returned after filling 1..n-1 for a t_max that
\* is not a multiple of dt
C10_Witness ==
    /\ pc = "done"
    /\ pe_call.fn = "simulate_simple"
    /\ pe.n >= 2
    /\ pe.n * pe_call.dt < pe_call.t_max
    /\ pe.log = [k \in 1..(pe.n - 1) |-> k]
    /\ pe.theta[pe.n - 1] # 0

(***************************************************************************)
(* The collision animation (SpecSimulation).                                *)
(***************************************************************************)
\* the frames after one that applied an impulse, in which the discs overlap
LaterOverlaps ==
    { k \in 2..Len(sim.log) :
        /\ \E i \in 1..(k - 1) : sim.log[i].hit
        /\ sim.log[k].overlap }

\* C11 as claimed: once a frame has applied an impulse, every following frame
\* in which the discs still overlap returns collided = False and leaves both
\* velocities unchanged, for every restitution in [0,1], 0 included.
C11_AsClaimed ==
    \A k \in LaterOverlaps :
        /\ sim.log[k].hit = FALSE
        /\ sim.log[k].v1 = sim.log[k - 1].v1
        /\ sim.log[k].v2 = sim.log[k - 1].v2

\* C11: once a frame has applied an impulse, every following frame in which
\* the discs still overlap leaves both velocities unchanged, for every
\* restitution in [0,1]; it returns collided = False when the two velocities
\* differ after the impulse, as they do for restitution > 0, and collided =
\* True again, with an impulse of 0, when they are equal, as they are after a
\* head-on contact with restitution 0.
C11_ResolvedOnce ==
    \A k \in LaterOverlaps :
        /\ sim.log[k].v1 = sim.log[k - 1].v1
        /\ sim.log[k].v2 = sim.log[k - 1].v2
        /\ sim.log[k].hit <=> (sim.log[k - 1].v1 = sim.log[k - 1].v2)
        /\ RLt(Zero, sim_par.restitution) => sim.log[k].hit = FALSE
        /\ sim_par.restitution = Zero => sim.log[k].hit = TRUE

\* C11 witness: with restitution 1/2 the discs still overlap in the frame after
\* the impulse, and the resolver leaves them alone
C11_Witness ==
    /\ sim_par.restitution = Half
    /\ Len(sim.log) \in LaterOverlaps
    /\ sim.log[Len(sim.log) - 1].hit
    /\ sim.log[Len(sim.log)].hit = FALSE

(***************************************************************************)
(* Momentum (SpecMomentum).                                                 *)
(***************************************************************************)
\* m1*v1 + m2*v2, component-wise
Momentum(m1, v1, m2, v2) == VAdd(VScale(m1, v1), VScale(m2, v2))

\* the velocities a frame started from
FrameStart(k) == IF k = 1 THEN StartState(sim_par) ELSE sim.log[k - 1]

NeighborCount(grid, r, c) ==
    SumAlive(grid, get_triangle_neighbors(r, c, NumRows(grid), NumCols(grid)), 1)

\* C13: get_triangle_neighbors never returns the cell itself and returns at
\* most 11 cells, none twice; the live-neighbour count of every cell in
\* apply_triangular_rules lies in 0..11, and a 12 in birth_set or survive_set
\* causes no birth and no survival: the generation is the one the rule sets
\* without 12 give.
C13_NeighbourBound ==
    /\ pc = "done" =>
          /\ \A i \in 1..Len(nb_ret) : nb_ret[i] # <<nb_call.r, nb_call.c>>
          /\ \A i, j \in 1..Len(nb_ret) : i # j => nb_ret[i] # nb_ret[j]
          /\ Len(nb_ret) <= 11
    /\ pc = "counted" =>
          /\ \A r \in DOMAIN ru_call.grid : \A c \in DOMAIN ru_call.grid[r] :
                /\ NeighborCount(ru_call.grid, r, c) \in 0..11
                /\ ru_ret.new_grid[r][c] = 1 =>
                      NeighborCount(ru_call.grid, r, c) \in
                          (IF ru_call.grid[r][c] = 1
                           THEN ru_call.survive_cond ELSE ru_call.birth_cond) \ {12}
          /\ ru_ret.new_grid =
                apply_triangular_rules(ru_call.grid, ru_call.birth_cond \ {12},
                                       ru_call.survive_cond \ {12}).new_grid

\* C13 witness: 12 is in both rule sets and nothing else is; a live cell with
\* eleven live neighbours and a dead cell are both dead in the generation
C13_Witness ==
    /\ pc = "counted"
    /\ ru_call.birth_cond = {12} /\ ru_call.survive_cond = {12}
    /\ \E r1, r2 \in DOMAIN ru_call.grid : \E c1, c2 \in DOMAIN ru_call.grid[0] :
          /\ ru_call.grid[r1][c1] = 1 /\ NeighborCount(ru_call.grid, r1, c1) = 11
          /\ ru_call.grid[r2][c2] = 0
          /\ ru_ret.new_grid[r1][c1] = 0 /\ ru_ret.new_grid[r2][c2] = 0

====
